---- MODULE Spec2Model ----
(***************************************************************************)
(* A model of the Forth engine of src/main.c (an adaptation of JONESFORTH  *)
(* in C): the dictionary arena with its word records, the parameter and    *)
(* return stacks, the tokenizer, the number parser, the threaded-code      *)
(* inner loop run_word, the primitives and the outer interpreter repl.     *)
(*                                                                         *)
(* Memory is modelled at the granularity the code uses it.  The arena      *)
(* f->words is an array of 8-byte cells; a cell holds either one 64-bit    *)
(* value (a sequence of length 1: a link, a codeword, a body cell) or      *)
(* eight separate bytes (a sequence of length 8: the flag byte and the     *)
(* name of a record).  Addresses are integers, as they are in C once they  *)
(* are cast to u64 and pushed on a stack.  Strings are sequences of ASCII  *)
(* codes.                                                                  *)
(***************************************************************************)
EXTENDS Integers, Sequences, FiniteSets, TLC

VARIABLES f, loc, pc, ntok, hist

vars == <<f, loc, pc, ntok, hist>>

(***************************************************************************)
(* Bounds of the model.  The capacities stand for word_size, stack_size    *)
(* and rstack_size of new_forth (65536 bytes, 16384 and 256 cells).        *)
(***************************************************************************)
StackCap == 2
RStackCap == 3
UserCells == 11
MaxTok == 5
MaxTokStack == 3
MaxTokRun == 7

(***************************************************************************)
(* Program constants and the address map.                                  *)
(***************************************************************************)
NULL == 0
EOF == -1
IMMEDIATE_FLAG == 1
NORMAL_STATE == 0
COMPILE_STATE == 1
BufSize == 64
WordsBase == 65536
BufAddr == 32768
HereAddr == 16432
LatestAddr == 16456
StdinAddr == 24576
StartupAddr == 24832
FnBase == 8192

CH_NL == 10
CH_SP == 32
CH_HASH == 35
CH_MINUS == 45
CH_0 == 48
CH_9 == 57

(***************************************************************************)
(* The primitives in the order new_forth installs them.                    *)
(***************************************************************************)
PrimTable ==
    << 
       [name |-> <<115,116,97,99,107,45,115,105,122,101>>, flags |-> 0, fn |-> "dostack_size"],
       [name |-> <<100,117,112>>, flags |-> 0, fn |-> "dup"],
       [name |-> <<111,118,101,114>>, flags |-> 0, fn |-> "over"],
       [name |-> <<100,114,111,112>>, flags |-> 0, fn |-> "drop"],
       [name |-> <<115,119,97,112>>, flags |-> 0, fn |-> "swap"],
       [name |-> <<43>>, flags |-> 0, fn |-> "add"],
       [name |-> <<42>>, flags |-> 0, fn |-> "mult"],
       [name |-> <<45>>, flags |-> 0, fn |-> "sub"],
       [name |-> <<100,105,118,109,111,100>>, flags |-> 0, fn |-> "divmod"],
       [name |-> <<61>>, flags |-> 0, fn |-> "eq"],
       [name |-> <<60>>, flags |-> 0, fn |-> "lt"],
       [name |-> <<62>>, flags |-> 0, fn |-> "gt"],
       [name |-> <<60,61>>, flags |-> 0, fn |-> "leq"],
       [name |-> <<62,61>>, flags |-> 0, fn |-> "geq"],
       [name |-> <<110,111,116>>, flags |-> 0, fn |-> "donot"],
       [name |-> <<97,110,100>>, flags |-> 0, fn |-> "doand"],
       [name |-> <<111,114>>, flags |-> 0, fn |-> "door"],
       [name |-> <<100,111,99,111,108>>, flags |-> 0, fn |-> "docol"],
       [name |-> <<101,120,105,116>>, flags |-> 0, fn |-> "doexit"],
       [name |-> <<105,115,45,99,111,109,112,105,108,105,110,103>>, flags |-> 0, fn |-> "is_compiling"],
       [name |-> <<91>>, flags |-> 1, fn |-> "set_immediate_mode"],
       [name |-> <<93>>, flags |-> 0, fn |-> "set_compile_mode"],
       [name |-> <<101,114,114,111,114>>, flags |-> 0, fn |-> "doerror"],
       [name |-> <<114,117,110,45,119,111,114,100>>, flags |-> 0, fn |-> "dorun_word"],
       [name |-> <<99,111,100,101,45,119,111,114,100>>, flags |-> 0, fn |-> "docodeword"],
       [name |-> <<107,101,121>>, flags |-> 0, fn |-> "key"],
       [name |-> <<101,109,105,116>>, flags |-> 0, fn |-> "emit"],
       [name |-> <<119,111,114,100>>, flags |-> 0, fn |-> "word"],
       [name |-> <<116,101,108,108>>, flags |-> 0, fn |-> "tell"],
       [name |-> <<112,97,114,115,101,45,110,117,109,98,101,114>>, flags |-> 0, fn |-> "doparse_number"],
       [name |-> <<102,105,110,100,45,119,111,114,100>>, flags |-> 0, fn |-> "dofind_word"],
       [name |-> <<58>>, flags |-> 0, fn |-> "colon"],
       [name |-> <<59>>, flags |-> 1, fn |-> "semicolon"],
       [name |-> <<44>>, flags |-> 0, fn |-> "comma"],
       [name |-> <<39>>, flags |-> 0, fn |-> "tick"],
       [name |-> <<104,101,114,101>>, flags |-> 0, fn |-> "here"],
       [name |-> <<108,97,116,101,115,116>>, flags |-> 0, fn |-> "latest"],
       [name |-> <<64>>, flags |-> 0, fn |-> "fetch"],
       [name |-> <<33>>, flags |-> 0, fn |-> "store"],
       [name |-> <<108,105,116>>, flags |-> 0, fn |-> "lit"],
       [name |-> <<98,114,97,110,99,104>>, flags |-> 0, fn |-> "branch"],
       [name |-> <<48,98,114,97,110,99,104>>, flags |-> 0, fn |-> "zero_branch"],
       [name |-> <<105,109,109,101,100,105,97,116,101>>, flags |-> 1, fn |-> "immediate"],
       [name |-> <<115,116,100,105,110>>, flags |-> 0, fn |-> "dostdin"],
       [name |-> <<115,101,116,45,105,110,112,117,116,45,115,116,114,101,97,109>>, flags |-> 0, fn |-> "set_input_stream"],
       [name |-> <<103,101,116,45,105,110,112,117,116,45,115,116,114,101,97,109>>, flags |-> 0, fn |-> "get_input_stream"],
       [name |-> <<99,108,111,115,101,45,102,105,108,101>>, flags |-> 0, fn |-> "close_file"],
       [name |-> <<111,112,101,110,45,114,101,97,100,45,102,105,108,101>>, flags |-> 0, fn |-> "open_read_file"],
       [name |-> <<46,115>>, flags |-> 0, fn |-> "printstack"],
       [name |-> <<46,119>>, flags |-> 0, fn |-> "printwords"],
       [name |-> <<46,100>>, flags |-> 0, fn |-> "dumpwords"]
    >>

NPrims == Len(PrimTable)

FnIndex(fn) == CHOOSE i \in 1..NPrims : PrimTable[i].fn = fn
FnPtr(fn) == FnBase + 16 * FnIndex(fn)
IsFnPtr(p) == p > FnBase /\ p <= FnBase + 16 * NPrims /\ (p - FnBase) % 16 = 0
FnOf(p) == PrimTable[(p - FnBase) \div 16].fn

(***************************************************************************)
(* Names used by the C code itself and by the scenarios.                   *)
(***************************************************************************)
S_word == <<119,111,114,100>>
S_lit == <<108,105,116>>
S_exit == <<101,120,105,116>>

(***************************************************************************)
(* Memory.                                                                 *)
(***************************************************************************)
NameLen(name) ==
    LET namelen == Len(name) + 1
    IN  IF (namelen + 1) % 8 # 0 THEN namelen + (8 - ((namelen + 1) % 8)) ELSE namelen
\* the number of cells of a record header: link, flag and name, codeword
HeaderCells(name) == (9 + NameLen(name) + 8) \div 8

RECURSIVE PrimCellsUpTo(_)
PrimCellsUpTo(i) == IF i = 0 THEN 0 ELSE PrimCellsUpTo(i - 1) + HeaderCells(PrimTable[i].name)
\* the arena holds the primitives and UserCells more cells
ArenaCells == PrimCellsUpTo(NPrims) + UserCells
ArenaEnd == WordsBase + 8 * ArenaCells

\* the element of a set of one element
TheOne(S) == CHOOSE x \in S : TRUE
Max(a, b) == IF a >= b THEN a ELSE b
Min(a, b) == IF a <= b THEN a ELSE b

Pow256(k) == CASE k = 0 -> 1 [] k = 1 -> 256 [] k = 2 -> 65536 [] k = 3 -> 16777216
               [] OTHER -> 0

\* an address inside the buffer f->words of f->word_size bytes, and a cell of it
InArena(g, addr) == addr >= WordsBase /\ addr < WordsBase + g.word_size
ValidCell(g, addr) == InArena(g, addr) /\ (addr - WordsBase) % 8 = 0
CellIx(addr) == (addr - WordsBase) \div 8

\* The value of a cell that was written byte by byte (little endian).  Only
\* values below 2^31 are represented; the code reads such cells as one value
\* only through a stray pointer.
CellValue(c) ==
    IF Len(c) = 1 THEN c[1]
    ELSE IF c[4] < 128 /\ c[5] = 0 /\ c[6] = 0 /\ c[7] = 0 /\ c[8] = 0
         THEN c[1] + 256 * c[2] + 65536 * c[3] + 16777216 * c[4]
         ELSE 2147483647

\* *cast(u64*, addr)
Rd(w, addr) == CellValue(w[CellIx(addr)])

\* cast(u8*, words)[off]
ByteOfValue(v, k) == IF k <= 3 THEN (v \div Pow256(k)) % 256
                     ELSE IF v < 0 THEN 255 ELSE 0
ArenaByte(w, off) ==
    IF Len(w[off \div 8]) = 8 THEN w[off \div 8][(off % 8) + 1]
    ELSE ByteOfValue(w[off \div 8][1], off % 8)

\* The eight bytes of a cell.
CellBytes(c) == IF Len(c) = 8 THEN c ELSE [k \in 1..8 |-> ByteOfValue(c[1], k - 1)]

\* A null-terminated string in memory: the static buffer of word() or bytes
\* of the arena.  StrOk says that the string lies in memory the model knows.
RECURSIVE ArenaStrEnd(_, _)
\* the offset of the first null byte at or after off, -1 when there is none
ArenaStrEnd(g, off) ==
    IF off < 0 \/ off >= g.word_size THEN -1
    ELSE IF ArenaByte(g.words, off) = 0 THEN off
    ELSE ArenaStrEnd(g, off + 1)
StrOk(g, addr) ==
    \/ addr = BufAddr /\ Len(g.buf) < BufSize
    \/ InArena(g, addr) /\ ArenaStrEnd(g, addr - WordsBase) >= 0
CStr(g, addr) ==
    IF addr = BufAddr THEN g.buf
    ELSE [i \in 1..(ArenaStrEnd(g, addr - WordsBase) - (addr - WordsBase)) |->
             ArenaByte(g.words, addr - WordsBase + i - 1)]

(***************************************************************************)
(* Output and halting.  status is "run" while the process runs, "assert" after a      *)
(* failed assertion, "exit" after exit(EXIT_FAILURE), and "ub" after the   *)
(* code has executed undefined behaviour (an access outside an object);    *)
(* nothing is modelled after that point.                                   *)
(***************************************************************************)
\* printf(msg, arg): out holds the diagnostics written to standard output
Say(g, msg, arg) == [g EXCEPT !.out = Append(@, [msg |-> msg, arg |-> arg])]

Fail(g) == IF g.status = "run" THEN [g EXCEPT !.status = "assert"] ELSE g
UB(g) == IF g.status = "run" THEN [g EXCEPT !.status = "ub"] ELSE g
Running(g) == g.status = "run"

(***************************************************************************)
(* Stacks.  top_stack and top_rstack are kept as element counts            *)
(* (f->top_stack - f->stack).                                              *)
(***************************************************************************)
stack_size(g) == g.top_stack
rstack_size(g) == g.top_rstack

\* f->top_stack[-k]; a read outside the buffer yields 0 and is never reached
\* behind the assertions of the code.
Peek(g, k) == IF (g.top_stack - k) \in DOMAIN g.stack THEN g.stack[g.top_stack - k] ELSE 0
RPeek(g, k) == IF (g.top_rstack - k) \in DOMAIN g.rstack THEN g.rstack[g.top_rstack - k] ELSE 0

\* pop without its assertion
pop_NoAssert(g) ==
    IF ~Running(g) THEN g ELSE [g EXCEPT !.top_stack = @ - 1]

pop(g) ==
    IF ~Running(g) THEN g
    ELSE IF stack_size(g) > 0 THEN [g EXCEPT !.top_stack = @ - 1] ELSE Fail(g)

push(g, p) ==
    IF ~Running(g) THEN g
    ELSE IF stack_size(g) < StackCap
         THEN [g EXCEPT !.stack[g.top_stack] = p, !.top_stack = @ + 1]
         ELSE Fail(g)

rpop(g) ==
    IF ~Running(g) THEN g
    ELSE IF rstack_size(g) > 0 THEN [g EXCEPT !.top_rstack = @ - 1] ELSE Fail(g)

rpush(g, p) ==
    IF ~Running(g) THEN g
    ELSE IF rstack_size(g) < RStackCap
         THEN [g EXCEPT !.rstack[g.top_rstack] = p, !.top_rstack = @ + 1]
         ELSE Fail(g)

\* f->top_stack[-1] = v
SetTop(g, v) == IF ~Running(g) THEN g ELSE [g EXCEPT !.stack[g.top_stack - 1] = v]

(***************************************************************************)
(* parse_number.                                                           *)
(***************************************************************************)
isdigit(c) == c >= CH_0 /\ c <= CH_9
isspace(c) == c \in {9, 10, 11, 12, 13, 32}

\* A value kept in a signed integer of w bits (two's complement).  The cells
\* of the engine have CellBits bits; values of that size are beyond the
\* integers of the model, whose numbers never reach the point of wrapping.
CellBits == 64
Wrap(n, w) == IF w > 30 THEN n ELSE ((n + 2^(w - 1)) % 2^w) - 2^(w - 1)

RECURSIVE ParseDigits(_, _, _, _)
\* the while loop of parse_number with n an integer of w bits: <<ok, n>>
ParseDigits(txt, i, n, w) ==
    IF i > Len(txt) THEN <<TRUE, n>>
    ELSE IF isdigit(txt[i])
         THEN ParseDigits(txt, i + 1, Wrap(10 * n + (txt[i] - CH_0), w), w)
    ELSE <<FALSE, 0>>

\* parse_number without the test for a text that ends after the sign
parse_number_w_LoneMinus(txt, w) ==
    IF Len(txt) = 0 THEN <<FALSE, 0>>
    ELSE IF txt[1] = CH_MINUS
         THEN LET Neg(r) == <<r[1], Wrap(0 - r[2], w)>> IN Neg(ParseDigits(txt, 2, 0, w))
         ELSE ParseDigits(txt, 1, 0, w)

\* parse_number on integers of w bits
parse_number_w(txt, w) ==
    IF Len(txt) = 0 THEN <<FALSE, 0>>
    ELSE IF txt[1] = CH_MINUS
         THEN IF Len(txt) = 1 THEN <<FALSE, 0>>
              ELSE LET Neg(r) == <<r[1], Wrap(0 - r[2], w)>>
                   IN  Neg(ParseDigits(txt, 2, 0, w))
         ELSE ParseDigits(txt, 1, 0, w)

parse_number(txt) == parse_number_w(txt, CellBits)

(***************************************************************************)
(* Word records.                                                           *)
(***************************************************************************)
wordname(rec) == rec + 9
wordtag(rec) == rec + 8

\* codeword that takes one byte of padding to be enough
codeword_OnePad(g, rec) ==
    LET Padded(d) == rec + d + 1
    IN  Padded(ArenaStrEnd(g, rec - WordsBase + 9) + 1 - (rec - WordsBase))

\* codeword: skip link and flag byte, the name, its null, then align
codeword(g, rec) ==
    LET Aligned(d) == rec + d + (IF d % 8 = 0 THEN 0 ELSE 8 - (d % 8))
    IN  Aligned(ArenaStrEnd(g, rec - WordsBase + 9) + 1 - (rec - WordsBase))

\* the cells that hold flag byte b and the name: bytes 8 .. 8 + namelen
NameCell(b, name, k) ==
    [j \in 1..8 |->
        LET pos == 8 * (k - 1) + (j - 1)
        IN  IF pos = 0 THEN b
            ELSE IF pos <= Len(name) THEN name[pos] ELSE 0]

is_immediate_word(g, rec) == (ArenaByte(g.words, wordtag(rec) - WordsBase) % 2) = 1

\* a comparison of the first strlen(name) bytes only
NameIs_Prefix(g, rec, name) ==
    /\ wordname(rec) - WordsBase + Len(name) < g.word_size
    /\ \A i \in 1..Len(name) : ArenaByte(g.words, wordname(rec) - WordsBase + i - 1) = name[i]

\* strcmp(wordname(rec), name) == 0, on the bytes of the arena
NameIs(g, rec, name) ==
    /\ wordname(rec) - WordsBase + Len(name) < g.word_size
    /\ \A i \in 1..Len(name) : ArenaByte(g.words, wordname(rec) - WordsBase + i - 1) = name[i]
    /\ ArenaByte(g.words, wordname(rec) - WordsBase + Len(name)) = 0

RECURSIVE FindFrom(_, _, _, _)
FindFrom(g, latest, name, fuel) ==
    IF latest = NULL THEN NULL
    ELSE IF fuel = 0 \/ ~ValidCell(g, latest) THEN -1
    ELSE IF NameIs(g, latest, name) THEN latest
    ELSE FindFrom(g, Rd(g.words, latest), name, fuel - 1)

\* find_word that starts the walk behind the most recent record
find_word_SkipLatest(g, name) ==
    IF g.latest = NULL THEN NULL
    ELSE IF ~ValidCell(g, g.latest) THEN -1
    ELSE FindFrom(g, Rd(g.words, g.latest), name, g.word_size \div 8)

\* find_word: the record, NULL, or -1 when the walk leaves the records
find_word(g, name) == FindFrom(g, g.latest, name, g.word_size \div 8)

\* ncells cells at here lie inside the arena
Fits(g, ncells) == ValidCell(g, g.here) /\ g.here + 8 * ncells <= WordsBase + g.word_size

RECURSIVE WriteCells(_, _, _)
\* the cells written one after the other from index i on
WriteCells(w, i, cells) ==
    IF cells = <<>> THEN w
    ELSE WriteCells([w EXCEPT ![i] = Head(cells)], i + 1, Tail(cells))

\* the cells of a record up to its codeword: link, flag byte and name
LinkAndName(link, b, name) ==
    <<(<<link>>)>> \o [k \in 1..((1 + NameLen(name)) \div 8) |-> NameCell(b, name, k)]

\* the cells of a record header: link, flag byte and name, codeword
HeaderImage(link, b, name, cw) == LinkAndName(link, b, name) \o <<(<<cw>>)>>

push_primitive_word(g, name, flags, primitive) ==
    IF ~Running(g) THEN g
    ELSE IF ~Fits(g, HeaderCells(name)) THEN UB([g EXCEPT !.here = @ + 8 * HeaderCells(name)])
    ELSE [g EXCEPT
            !.words = WriteCells(@, CellIx(g.here),
                                 HeaderImage(g.latest, flags, name, FnPtr(primitive))),
            !.latest = g.here,
            !.here = g.here + 9 + NameLen(name) + 8]

RECURSIVE InstallPrims(_, _, _)
\* the calls push_primitive_word of new_forth for the entries lo..hi of the
\* table, in their order: the first half of the range, then the second one
InstallPrims(g, lo, hi) ==
    IF lo > hi THEN g
    ELSE IF lo = hi
    THEN push_primitive_word(g, PrimTable[lo].name, PrimTable[lo].flags, PrimTable[lo].fn)
    ELSE TheOne({ InstallPrims(g1, (lo + hi) \div 2 + 1, hi) :
                  g1 \in {InstallPrims(g, lo, (lo + hi) \div 2)} })

\* new_forth assigns no value to f->state: the field holds what malloc left
\* there, NORMAL_STATE, COMPILE_STATE or a value that is no state at all
Uninit == {NORMAL_STATE, COMPILE_STATE, 2}

new_forth(st) ==
    InstallPrims(
        [ words |-> [c \in 0..(ArenaCells - 1) |-> <<0>>],
          stack |-> [c \in 0..(StackCap - 1) |-> 0],
          rstack |-> [c \in 0..(RStackCap - 1) |-> 0],
          word_size |-> 8 * ArenaCells,
          here |-> WordsBase,
          latest |-> NULL,
          top_stack |-> 0,
          top_rstack |-> 0,
          state |-> st,
          next |-> NULL,
          current |-> NULL,
          input_stream |-> <<>>,
          eof |-> FALSE,
          input_handle |-> StdinAddr,
          buf |-> <<>>,
          out |-> <<>>,
          status |-> "run" ], 1, NPrims)

(***************************************************************************)
(* The input stream.  f.input_stream holds the bytes of the stream that    *)
(* are known and not read yet; the environment extends it when the engine  *)
(* reads.  A read past these bytes is the end of the stream.               *)
(***************************************************************************)
Getc(s, i) == IF i >= 1 /\ i <= Len(s) THEN s[i] ELSE EOF

\* char c = fgetc(..): the byte kept in a char
AsByte(c) == IF c = EOF THEN 255 ELSE c

\* while(isspace(c = fgetc(..))): the index of the first read that is no space
SkipWs(s, i) ==
    CHOOSE j \in i..Max(i, Len(s) + 1) :
        ~isspace(Getc(s, j)) /\ \A k \in i..(j - 1) : isspace(Getc(s, k))

\* reads from index i up to a newline or the end: the index of that read
Drain(s, i) ==
    CHOOSE j \in i..Max(i, Len(s) + 1) :
        Getc(s, j) \in {CH_NL, EOF} /\ \A k \in i..(j - 1) : Getc(s, k) \notin {CH_NL, EOF}

RECURSIVE SkipComments(_, _)
\* while(c == '#') { drain the line; skip whitespace again }
SkipComments(s, i) ==
    IF Getc(s, i) = CH_HASH THEN SkipComments(s, SkipWs(s, Drain(s, i + 1) + 1)) ELSE i

IsDelim(c) == isspace(c) \/ c = EOF \/ c = CH_HASH

\* the value of n after the for loop of word
TokN(s, i) ==
    IF \E n \in 0..(BufSize - 1) : IsDelim(Getc(s, i + n + 1))
    THEN CHOOSE n \in 0..(BufSize - 1) :
            IsDelim(Getc(s, i + n + 1)) /\ \A m \in 0..(n - 1) : ~IsDelim(Getc(s, i + m + 1))
    ELSE BufSize

\* after the reads up to index last: the unread bytes and the end flag
Consume(g, last) ==
    [g EXCEPT !.input_stream = SubSeq(g.input_stream, last + 1, Len(g.input_stream)),
              !.eof = g.eof \/ last > Len(g.input_stream)]

word(g) ==
    IF ~Running(g) THEN g
    ELSE
    LET s == g.input_stream
        \* the bytes stored in buf: the first one and those read before the delimiter
        Stored(i, n) == [k \in 1..Min(n + 1, BufSize) |-> AsByte(Getc(s, i + k - 1))]
        \* the comment that follows the token is skipped too
        Last(l1) == IF Getc(s, l1) = CH_HASH THEN Drain(s, l1 + 1) ELSE l1
        Return(n, last, g1) ==
            IF n = 0 /\ Getc(s, last) = EOF THEN Say(g1, "[failure in getchar]", <<>>)
            ELSE push(g1, BufAddr)
        Read(n, stored, last) == Return(n, last, [Consume(g, last) EXCEPT !.buf = stored])
        Token(i, n) == Read(n, Stored(i, n), Last(i + Min(n + 1, BufSize)))
        From(i) == Token(i, TokN(s, i))
    IN  From(SkipComments(s, SkipWs(s, 1)))

key(g) ==
    IF ~Running(g) THEN g
    ELSE LET c == Getc(g.input_stream, 1)
         IN  IF c = EOF THEN Say(Consume(g, 1), "[failure in getchar]", <<>>)
             ELSE push(Consume(g, 1), c)

(***************************************************************************)
(* Primitives.                                                             *)
(***************************************************************************)
docol(g) ==
    LET g1 == rpush(g, g.next)
    IN  IF Running(g1) THEN [g1 EXCEPT !.next = g.current + 8] ELSE g1

doexit(g) ==
    LET g1 == rpop(g)
    IN  IF Running(g1) THEN [g1 EXCEPT !.next = RPeek(g, 1)] ELSE g1

lit(g) ==
    IF ~ValidCell(g, g.next) THEN UB(g)
    ELSE LET g1 == push(g, Rd(g.words, g.next))
         IN  IF Running(g1) THEN [g1 EXCEPT !.next = @ + 8] ELSE g1

\* branch that adds the offset to the address of the offset cell
branch_FromOffsetCell(g) ==
    IF ~ValidCell(g, g.next) THEN UB(g)
    ELSE [g EXCEPT !.next = g.next + 8 * Rd(g.words, g.next)]

branch(g) ==
    IF ~ValidCell(g, g.next) THEN UB(g)
    ELSE [g EXCEPT !.next = g.next + 8 + 8 * Rd(g.words, g.next)]

zero_branch(g) ==
    IF ~ValidCell(g, g.next) THEN UB(g)
    ELSE LET offset == Rd(g.words, g.next)
             g1 == pop([g EXCEPT !.next = @ + 8])
         IN  IF Running(g1) /\ Peek(g, 1) = 0 THEN [g1 EXCEPT !.next = @ + 8 * offset] ELSE g1

is_compiling(g) == push(g, g.state)

\* [ with the two states confused
set_immediate_mode_Swapped(g) == [g EXCEPT !.state = COMPILE_STATE]

set_immediate_mode(g) == [g EXCEPT !.state = NORMAL_STATE]
set_compile_mode(g) == [g EXCEPT !.state = COMPILE_STATE]

doerror(g) == [g EXCEPT !.status = "exit"]

dorun_word(g) ==
    LET g1 == pop(g)
    IN  IF Running(g1) THEN [g1 EXCEPT !.next = Peek(g, 1)] ELSE g1

dostack_size(g) == push(g, stack_size(g))

\* doparse_number on cells of w bits
doparse_number_w(g, w) ==
    LET Result(g1, r) == push(push(g1, IF r[1] THEN r[2] ELSE 0), IF r[1] THEN 1 ELSE 0)
        Parse(g1, txt) ==
            IF ~Running(g1) THEN g1
            ELSE IF ~StrOk(g1, txt) THEN UB(g1)
            ELSE Result(g1, parse_number_w(CStr(g1, txt), w))
    IN  Parse(pop(g), Peek(g, 1))

doparse_number(g) == doparse_number_w(g, CellBits)

\* the binary operators: assert(stack_size(f) >= 2); pop; top[-1] = a op b
Binary(g, v) == IF stack_size(g) >= 2 THEN SetTop(pop(g), v) ELSE Fail(g)
BoolCell(b) == IF b THEN 1 ELSE 0

add(g) == Binary(g, Peek(g, 2) + Peek(g, 1))
mult(g) == Binary(g, Peek(g, 2) * Peek(g, 1))
sub(g) == Binary(g, Peek(g, 2) - Peek(g, 1))
eq(g) == Binary(g, BoolCell(Peek(g, 2) = Peek(g, 1)))
lt(g) == Binary(g, BoolCell(Peek(g, 2) < Peek(g, 1)))
gt(g) == Binary(g, BoolCell(Peek(g, 2) > Peek(g, 1)))
leq(g) == Binary(g, BoolCell(Peek(g, 2) <= Peek(g, 1)))
geq(g) == Binary(g, BoolCell(Peek(g, 2) >= Peek(g, 1)))
doand(g) == Binary(g, BoolCell(Peek(g, 2) # 0 /\ Peek(g, 1) # 0))
door(g) == Binary(g, BoolCell(Peek(g, 2) # 0 \/ Peek(g, 1) # 0))

\* C division truncates toward zero
Abs(a) == IF a < 0 THEN 0 - a ELSE a
CDiv(a, b) == IF (a < 0) = (b < 0) THEN Abs(a) \div Abs(b) ELSE 0 - (Abs(a) \div Abs(b))
CMod(a, b) == a - b * CDiv(a, b)

divmod(g) ==
    IF stack_size(g) < 2 THEN Fail(g)
    ELSE IF Peek(g, 1) = 0 THEN UB(g)
    ELSE [g EXCEPT !.stack[g.top_stack - 2] = CDiv(Peek(g, 2), Peek(g, 1)),
                   !.stack[g.top_stack - 1] = CMod(Peek(g, 2), Peek(g, 1))]

donot(g) == push(pop(g), BoolCell(Peek(g, 1) = 0))

drop(g) == pop(g)

swap(g) ==
    IF stack_size(g) < 2 THEN Fail(g)
    ELSE push(push(pop(pop(g)), Peek(g, 1)), Peek(g, 2))

\* dup writes at top_stack and increments it without a look at the capacity
dup(g) ==
    IF ~(g.top_stack >= 1) THEN Fail(g)
    ELSE IF g.top_stack \in DOMAIN g.stack
         THEN [g EXCEPT !.stack[g.top_stack] = Peek(g, 1), !.top_stack = @ + 1]
         ELSE UB([g EXCEPT !.top_stack = @ + 1])

over(g) == IF ~(g.top_stack >= 2) THEN Fail(g) ELSE push(g, Peek(g, 2))

emit(g) ==
    IF ~(g.top_stack >= 1) THEN Fail(g)
    ELSE IF ~(Peek(g, 1) >= 0 /\ Peek(g, 1) < 256) THEN Fail(g)
    ELSE pop(g)

tell(g) ==
    LET Printed(g1) == IF Running(g1) /\ ~StrOk(g1, Peek(g, 1)) THEN UB(g1) ELSE g1
    IN  Printed(pop(g))

dofind_word(g) ==
    LET Found(g1, r) == IF r = -1 THEN UB(g1) ELSE push(g1, r)
        Find(g1, name) ==
            IF ~Running(g1) THEN g1
            ELSE IF ~StrOk(g1, name) THEN UB(g1)
            ELSE Found(g1, find_word(g1, CStr(g1, name)))
    IN  Find(pop(g), Peek(g, 1))

dostdin(g) == push(g, StdinAddr)

set_input_stream(g) ==
    LET g1 == pop(g)
    IN  IF Running(g1) THEN [g1 EXCEPT !.input_handle = Peek(g, 1)] ELSE g1
get_input_stream(g) == push(g, g.input_handle)

\* fopen: the model has no other file than the one repl opens
open_read_file(g) ==
    IF stack_size(g) < 1 THEN Fail(g)
    ELSE IF ~StrOk(g, Peek(g, 1)) THEN UB(g)
    ELSE push(pop(g), NULL)

close_file(g) ==
    IF stack_size(g) < 1 THEN Fail(g)
    ELSE IF Peek(g, 1) \notin {StdinAddr, StartupAddr} THEN UB(pop(g))
    ELSE pop(g)

\* a pointer to a record whose name can be walked
RecordOk(g, rec) == ValidCell(g, rec) /\ InArena(g, rec + 9) /\ StrOk(g, wordname(rec))
                        /\ ValidCell(g, codeword(g, rec))

docodeword(g) ==
    LET Of(g1, rec) ==
            IF ~Running(g1) THEN g1
            ELSE IF ~RecordOk(g1, rec) THEN UB(g1)
            ELSE push(g1, codeword(g1, rec))
    IN  Of(pop(g), Peek(g, 1))

\* *cast(u64*, f->here) = v; f->here += 8
AppendCell(g, v) ==
    IF ~Running(g) THEN g
    ELSE IF ~Fits(g, 1) THEN UB([g EXCEPT !.here = @ + 8])
    ELSE [g EXCEPT !.words[CellIx(g.here)] = <<v>>, !.here = @ + 8]

\* semicolon that tests the state after it has closed the word
semicolon_LateAssert(g) ==
    LET Close(g1, e) ==
            IF e = NULL \/ e = -1 \/ ~RecordOk(g1, e) THEN UB(g1)
            ELSE AppendCell(g1, codeword(g1, e))
        Checked(g2) == IF g.state # COMPILE_STATE THEN Fail(g2) ELSE g2
    IN  Checked(Close([g EXCEPT !.state = NORMAL_STATE], find_word(g, S_exit)))

semicolon(g) ==
    IF g.state # COMPILE_STATE THEN Fail(g)
    ELSE LET Close(g1, e) ==
                 IF e = NULL \/ e = -1 \/ ~RecordOk(g1, e) THEN UB(g1)
                 ELSE AppendCell(g1, codeword(g1, e))
         IN  Close([g EXCEPT !.state = NORMAL_STATE], find_word(g, S_exit))

here(g) == push(g, HereAddr)
latest(g) == push(g, LatestAddr)

\* the cells @ and ! can reach: the arena and the two cursors
Addressable(g, addr) == ValidCell(g, addr) \/ addr = HereAddr \/ addr = LatestAddr
Load(g, addr) ==
    IF addr = HereAddr THEN g.here
    ELSE IF addr = LatestAddr THEN g.latest
    ELSE Rd(g.words, addr)

fetch(g) ==
    LET At(g1, addr) ==
            IF ~Running(g1) THEN g1
            ELSE IF ~Addressable(g1, addr) THEN UB(g1)
            ELSE push(g1, Load(g1, addr))
    IN  At(pop(g), Peek(g, 1))

store(g) ==
    LET At(g2, addr, val) ==
            IF ~Running(g2) THEN g2
            ELSE IF ~Addressable(g2, addr) THEN UB(g2)
            ELSE IF addr = HereAddr THEN [g2 EXCEPT !.here = val]
            ELSE IF addr = LatestAddr THEN [g2 EXCEPT !.latest = val]
            ELSE [g2 EXCEPT !.words[CellIx(addr)] = <<val>>]
    IN  At(pop(pop(g)), Peek(g, 1), Peek(g, 2))

comma(g) == AppendCell(pop(g), Peek(g, 1))

tick(g) ==
    IF ~ValidCell(g, g.next) THEN UB(g)
    ELSE LET g1 == push(g, Rd(g.words, g.next))
         IN  IF Running(g1) THEN [g1 EXCEPT !.next = @ + 8] ELSE g1

\* the introspection words only print
printstack(g) == g
printwords(g) == IF find_word(g, <<>>) = -1 THEN UB(g) ELSE g
dumpwords(g) == IF find_word(g, <<>>) = -1 THEN UB(g) ELSE g

immediate(g) ==
    IF g.latest = NULL THEN Fail(g)
    ELSE IF ~ValidCell(g, wordtag(g.latest)) THEN UB(g)
    ELSE LET Tagged(b) == [k \in 1..8 |-> IF k = 1 /\ b[1] % 2 = 0 THEN b[1] + 1 ELSE b[k]]
         IN  [g EXCEPT !.words[CellIx(wordtag(g.latest))] = Tagged(CellBytes(@))]

\* the call run_word(f, find_word(f, "word")) of colon: it sets current and
\* next and dispatches the codeword of the record once; next stays NULL and
\* the loop ends.  A record named word that is not the primitive is outside
\* the model.
run_word_word(g) ==
    LET Dispatch(g1) == IF Rd(g1.words, g1.current) = FnPtr("word") THEN word(g1) ELSE UB(g1)
        Run(w) ==
            IF w = NULL \/ w = -1 \/ ~RecordOk(g, w) THEN UB(g)
            ELSE Dispatch([g EXCEPT !.current = codeword(g, w), !.next = NULL])
    IN  Run(find_word(g, S_word))

\* colon that leaves LATEST alone until the definition is complete
colon_LateLatest(g) ==
    LET \* *codeword(f->here) = docol, then the two cursors
        Slot(g4, rec, nm) ==
            IF ~ValidCell(g4, codeword(g4, rec)) THEN UB(g4)
            ELSE [g4 EXCEPT !.words[CellIx(codeword(g4, rec))] = <<FnPtr("docol")>>,
                            !.here = rec + 8 + 1 + 8 + NameLen(nm)]
        \* the link and the name; the flag byte keeps what the arena held
        Header(g3, nm) ==
            IF ~Fits(g3, HeaderCells(nm)) THEN UB([g3 EXCEPT !.here = @ + 8 * HeaderCells(nm)])
            ELSE Slot([g3 EXCEPT
                         !.words = WriteCells(@, CellIx(g3.here),
                                      LinkAndName(g3.latest,
                                                  ArenaByte(g3.words, g3.here + 8 - WordsBase),
                                                  nm))],
                      g3.here, nm)
        Define(g2, name) ==
            IF ~Running(g2) THEN g2
            ELSE IF ~StrOk(g2, name) THEN UB(g2)
            ELSE IF g2.state # NORMAL_STATE THEN Fail(g2)
            ELSE Header([g2 EXCEPT !.state = COMPILE_STATE], CStr(g2, name))
        Named(g1) == Define(pop(g1), Peek(g1, 1))
    IN  Named(run_word_word(g))

colon(g) ==
    LET \* *codeword(f->here) = docol, then the two cursors
        Slot(g4, rec, nm) ==
            IF ~ValidCell(g4, codeword(g4, rec)) THEN UB(g4)
            ELSE [g4 EXCEPT !.words[CellIx(codeword(g4, rec))] = <<FnPtr("docol")>>,
                            !.latest = rec,
                            !.here = rec + 8 + 1 + 8 + NameLen(nm)]
        \* the link and the name; the flag byte keeps what the arena held
        Header(g3, nm) ==
            IF ~Fits(g3, HeaderCells(nm)) THEN UB([g3 EXCEPT !.here = @ + 8 * HeaderCells(nm)])
            ELSE Slot([g3 EXCEPT
                         !.words = WriteCells(@, CellIx(g3.here),
                                      LinkAndName(g3.latest,
                                                  ArenaByte(g3.words, g3.here + 8 - WordsBase),
                                                  nm))],
                      g3.here, nm)
        Define(g2, name) ==
            IF ~Running(g2) THEN g2
            ELSE IF ~StrOk(g2, name) THEN UB(g2)
            ELSE IF g2.state # NORMAL_STATE THEN Fail(g2)
            ELSE Header([g2 EXCEPT !.state = COMPILE_STATE], CStr(g2, name))
        Named(g1) == Define(pop(g1), Peek(g1, 1))
    IN  Named(run_word_word(g))

ExecPrim(fn, g) ==
    CASE fn = "dostack_size" -> dostack_size(g)
      [] fn = "dup" -> dup(g)
      [] fn = "over" -> over(g)
      [] fn = "drop" -> drop(g)
      [] fn = "swap" -> swap(g)
      [] fn = "add" -> add(g)
      [] fn = "mult" -> mult(g)
      [] fn = "sub" -> sub(g)
      [] fn = "divmod" -> divmod(g)
      [] fn = "eq" -> eq(g)
      [] fn = "lt" -> lt(g)
      [] fn = "gt" -> gt(g)
      [] fn = "leq" -> leq(g)
      [] fn = "geq" -> geq(g)
      [] fn = "donot" -> donot(g)
      [] fn = "doand" -> doand(g)
      [] fn = "door" -> door(g)
      [] fn = "docol" -> docol(g)
      [] fn = "doexit" -> doexit(g)
      [] fn = "is_compiling" -> is_compiling(g)
      [] fn = "set_immediate_mode" -> set_immediate_mode(g)
      [] fn = "set_compile_mode" -> set_compile_mode(g)
      [] fn = "doerror" -> doerror(g)
      [] fn = "dorun_word" -> dorun_word(g)
      [] fn = "docodeword" -> docodeword(g)
      [] fn = "key" -> key(g)
      [] fn = "emit" -> emit(g)
      [] fn = "word" -> word(g)
      [] fn = "tell" -> tell(g)
      [] fn = "doparse_number" -> doparse_number(g)
      [] fn = "dofind_word" -> dofind_word(g)
      [] fn = "colon" -> colon(g)
      [] fn = "semicolon" -> semicolon(g)
      [] fn = "comma" -> comma(g)
      [] fn = "tick" -> tick(g)
      [] fn = "here" -> here(g)
      [] fn = "latest" -> latest(g)
      [] fn = "fetch" -> fetch(g)
      [] fn = "store" -> store(g)
      [] fn = "lit" -> lit(g)
      [] fn = "branch" -> branch(g)
      [] fn = "zero_branch" -> zero_branch(g)
      [] fn = "immediate" -> immediate(g)
      [] fn = "dostdin" -> dostdin(g)
      [] fn = "set_input_stream" -> set_input_stream(g)
      [] fn = "get_input_stream" -> get_input_stream(g)
      [] fn = "close_file" -> close_file(g)
      [] fn = "open_read_file" -> open_read_file(g)
      [] fn = "printstack" -> printstack(g)
      [] fn = "printwords" -> printwords(g)
      [] fn = "dumpwords" -> dumpwords(g)

(***************************************************************************)
(* Tokens of the scenarios.                                                *)
(***************************************************************************)
\* the tokens of the input, as the bytes of their text
Tok ==
    [ colon |-> <<58>>,
      semi |-> <<59>>,
      lbrack |-> <<91>>,
      rbrack |-> <<93>>,
      comma |-> <<44>>,
      zero |-> <<48>>,
      one |-> <<49>>,
      a |-> <<97>>,
      b |-> <<98>>,
      zz |-> <<122, 122>>,
      dup |-> <<100, 117, 112>>,
      drop |-> <<100, 114, 111, 112>>,
      plus |-> <<43>>,
      immediate |-> <<105, 109, 109, 101, 100, 105, 97, 116, 101>>,
      emit |-> <<101, 109, 105, 116>>,
      swap |-> <<115, 119, 97, 112>>,
      over |-> <<111, 118, 101, 114>>,
      divmod |-> <<100, 105, 118, 109, 111, 100>>,
      fetch |-> <<64>>,
      store |-> <<33>>,
      minus |-> <<45>>,
      not |-> <<110, 111, 116>>,
      tell |-> <<116, 101, 108, 108>>,
      branch |-> <<98, 114, 97, 110, 99, 104>>,
      zbranch |-> <<48, 98, 114, 97, 110, 99, 104>> ]

\* what the environment may hand to a read: a token and the blank after it,
\* or nothing more (the end of the stream)
Offer(T, mx) ==
    IF f.eof \/ ntok >= mx THEN {<<>>} ELSE {t \o <<CH_SP>> : t \in T} \cup {<<>>}

Deliver(g, ch) == [g EXCEPT !.input_stream = @ \o ch]

\* the primitives that read the input stream
Reads(fn) == fn \in {"word", "key", "colon"}

\* the function at f->current, "" when current points at no function
CurFn(g) ==
    IF ValidCell(g, g.current) /\ IsFnPtr(Rd(g.words, g.current))
    THEN FnOf(Rd(g.words, g.current)) ELSE ""

\* the live cells of the parameter stack
StackOf(g) == [i \in 1..Min(Max(g.top_stack, 0), StackCap) |-> g.stack[i - 1]]

(***************************************************************************)
(* History kept for the properties: the records appended so far, the       *)
(* engine at the entry of the outermost run_word of a colon word with the  *)
(* bytes the run has read, the branch the last step took, and the record   *)
(* whose header colon wrote and that no ; has closed yet.                  *)
(***************************************************************************)
RECURSIVE PrimRecords(_)
PrimRecords(i) ==
    IF i = 0 THEN <<>>
    ELSE Append(PrimRecords(i - 1),
                [addr |-> WordsBase + 8 * PrimCellsUpTo(i - 1), name |-> PrimTable[i].name])

\* the value of run0 while no run is sampled
NoRun == [status |-> "none"]

\* a step of colon (fn) that wrote a header at g.here
WroteHeader(fn, g, g1) == fn = "colon" /\ Running(g1) /\ g1.here > g.here

HistAppend(h, wrote, g, g1) ==
    IF wrote
    THEN [h EXCEPT !.appended = Append(@, [addr |-> g.here, name |-> CStr(g1, wordname(g.here))])]
    ELSE h

(***************************************************************************)
(* repl and run_word.                                                      *)
(***************************************************************************)
Init ==
    /\ \E st \in Uninit : f = new_forth(st)
    /\ loc = [word |-> NULL, lit |-> NULL]
    /\ pc = "main"
    /\ ntok = 0
    /\ hist = [last |-> "init", appended |-> PrimRecords(NPrims),
               sampled |-> FALSE, run0 |-> NoRun, word |-> NULL, open |-> NULL]

\* repl up to its loop: the two lookups and the fopen of startup.f
ReplEntry ==
    /\ pc = "main"
    /\ \E opened \in BOOLEAN, w \in {find_word(f, S_word)}, l \in {find_word(f, S_lit)} :
         /\ loc' = [word |-> w, lit |-> l]
         /\ f' = IF w = NULL \/ l = NULL THEN Fail(f)
                 ELSE IF opened THEN [f EXCEPT !.input_handle = StartupAddr]
                 ELSE Fail([f EXCEPT !.input_handle = NULL])
    /\ pc' = "repl"
    /\ hist' = [hist EXCEPT !.last = "entry"]
    /\ UNCHANGED ntok

\* run_word(f, word) of the loop of repl: one dispatch of the tokenizer
ReadToken(g) ==
    IF ~RecordOk(g, loc.word) THEN UB(g)
    ELSE LET Dispatch(g1) ==
                 IF Rd(g1.words, g1.current) = FnPtr("word") THEN word(g1) ELSE UB(g1)
         IN  Dispatch([g EXCEPT !.current = codeword(g, loc.word), !.next = NULL])

\* run_word up to its loop
EnterWord(g, w) ==
    IF ~RecordOk(g, w) THEN UB(g)
    ELSE [g EXCEPT !.current = codeword(g, w), !.next = NULL]

\* the NORMAL_STATE branch with the dictionary asked before the number parser
ClassifyNormal_LookupFirst(g, txt) ==
    LET Branch(r, nx) ==
            IF nx # NULL /\ nx # -1 THEN <<EnterWord(g, nx), "exec">>
            ELSE IF r[1] THEN <<push(g, r[2]), "num">>
            ELSE IF nx = NULL THEN <<Fail(g), "notfound">>
            ELSE <<UB(g), "ub">>
    IN  Branch(parse_number(txt), find_word(g, txt))

\* the NORMAL_STATE branch of the loop of repl: <<engine, branch taken>>
ClassifyNormal(g, txt) ==
    LET Lookup(nx) ==
            IF nx = NULL THEN <<Fail(g), "notfound">>
            ELSE IF nx = -1 THEN <<UB(g), "ub">>
            ELSE <<EnterWord(g, nx), "exec">>
        Branch(r) == IF r[1] THEN <<push(g, r[2]), "num">> ELSE Lookup(find_word(g, txt))
    IN  Branch(parse_number(txt))

\* the COMPILE_STATE branch that compiles a number without the codeword of lit
ClassifyCompile_NoLit(g, txt) ==
    LET Lookup(nx) ==
            IF nx = NULL THEN <<Fail(Say(g, "failed to find", txt)), "notfound">>
            ELSE IF nx = -1 \/ ~RecordOk(g, nx) THEN <<UB(g), "ub">>
            ELSE IF is_immediate_word(g, nx) THEN <<EnterWord(g, nx), "imm">>
            ELSE <<AppendCell(g, codeword(g, nx)), "compile">>
        Branch(r) == IF r[1] THEN <<AppendCell(g, r[2]), "lit">>
                     ELSE Lookup(find_word(g, txt))
    IN  Branch(parse_number(txt))

\* the COMPILE_STATE branch of the loop of repl
ClassifyCompile(g, txt) ==
    LET Lookup(nx) ==
            IF nx = NULL THEN <<Fail(Say(g, "failed to find", txt)), "notfound">>
            ELSE IF nx = -1 \/ ~RecordOk(g, nx) THEN <<UB(g), "ub">>
            ELSE IF is_immediate_word(g, nx) THEN <<EnterWord(g, nx), "imm">>
            ELSE <<AppendCell(g, codeword(g, nx)), "compile">>
        Branch(r) ==
            IF r[1] THEN <<AppendCell(AppendCell(g, codeword(g, loc.lit)), r[2]), "lit">>
            ELSE Lookup(find_word(g, txt))
    IN  Branch(parse_number(txt))

Classify(g, txt) ==
    IF g.state = NORMAL_STATE THEN ClassifyNormal(g, txt)
    ELSE IF g.state = COMPILE_STATE THEN ClassifyCompile(g, txt)
    ELSE <<Fail(g), "state">>

Repl(T, mx) ==
    /\ pc = "repl"
    /\ Running(f)
    /\ \E ch \in Offer(T, mx) :
       \E g1 \in {ReadToken(Deliver(f, ch))} :
       \E g2 \in {pop(g1)} :
       \E c \in {IF ~Running(g2) THEN <<g2, "halt">>
                 ELSE IF ~StrOk(g2, Peek(g1, 1)) THEN <<UB(g2), "ub">>
                 ELSE Classify(g2, CStr(g2, Peek(g1, 1)))} :
       \E entered \in {Running(c[1]) /\ c[2] \in {"exec", "imm"}} :
       \E sampled \in {entered /\ CurFn(c[1]) = "docol"} :
         /\ f' = c[1]
         /\ pc' = IF entered THEN "run" ELSE "repl"
         /\ ntok' = IF ch = <<>> THEN ntok ELSE ntok + 1
         /\ hist' = [hist EXCEPT
                       !.last = c[2],
                       !.sampled = sampled,
                       !.run0 = IF sampled THEN g2 ELSE NoRun,
                       !.word = IF sampled THEN c[1].current ELSE NULL]
    /\ UNCHANGED loc

\* one turn of the loop of run_word: dispatch, then fetch the next cell
RunStep(T, mx) ==
    /\ pc = "run"
    /\ Running(f)
    /\ \E fn \in {CurFn(f)} :
       \E ch \in (IF Reads(fn) THEN Offer(T, mx) ELSE {<<>>}) :
       \E g0 \in {Deliver(f, ch)} :
       \E g1 \in {IF fn = "" THEN UB(g0) ELSE ExecPrim(fn, g0)} :
       \E g2 \in {IF ~Running(g1) \/ g1.next = NULL THEN g1
                  ELSE IF ~ValidCell(g1, g1.next) THEN UB(g1)
                  ELSE [g1 EXCEPT !.current = Rd(g1.words, g1.next), !.next = @ + 8]} :
       \E wrote \in {WroteHeader(fn, g0, g1)} :
         /\ f' = g2
         /\ pc' = IF Running(g2) /\ g2.next = NULL THEN "repl" ELSE "run"
         /\ ntok' = IF ch = <<>> THEN ntok ELSE ntok + 1
         /\ hist' = [HistAppend(hist, wrote, g0, g1) EXCEPT
                       !.last = IF wrote THEN "header" ELSE "step",
                       !.open = IF wrote THEN g0.here
                                ELSE IF fn = "semicolon" /\ Running(g1) THEN NULL ELSE @,
                       !.run0 = IF hist.sampled THEN Deliver(@, ch) ELSE @]
    /\ UNCHANGED loc

TokDef == {Tok.colon, Tok.semi, Tok.a, Tok.one, Tok.dup, Tok.lbrack, Tok.rbrack, S_exit}
TokRun == {Tok.colon, Tok.semi, Tok.a, Tok.one, Tok.dup}
TokStack == {Tok.one, Tok.dup, Tok.drop, Tok.emit, Tok.fetch, Tok.plus, Tok.minus, Tok.swap,
             Tok.over, Tok.divmod, Tok.store, Tok.comma, Tok.not, Tok.tell, S_exit}

Next == ReplEntry \/ Repl(TokDef, MaxTok) \/ RunStep(TokDef, MaxTok)
Spec == Init /\ [][Next]_vars

NextRun == ReplEntry \/ Repl(TokRun, MaxTokRun) \/ RunStep(TokRun, MaxTokRun)
SpecRun == Init /\ [][NextRun]_vars

NextStack == ReplEntry \/ Repl(TokStack, MaxTokStack) \/ RunStep(TokStack, MaxTokStack)
SpecStack == Init /\ [][NextStack]_vars

(***************************************************************************)
(* The tokenizer on its own: run_word(f, word) on a stream of MaxStream    *)
(* bytes at most that ends after them.  The environment hands the bytes    *)
(* over at the first call; the calls that follow read what is left.        *)
(***************************************************************************)
MaxStream == 3

StreamBytes == {97, CH_SP, CH_HASH, CH_NL}
Streams == UNION {[1..n -> StreamBytes] : n \in 0..MaxStream}

WordCall ==
    /\ pc = "repl"
    /\ Running(f)
    /\ ~f.eof
    /\ \E s \in (IF ntok = 0 THEN Streams ELSE {<<>>}) :
       \E g0 \in {Deliver(f, s)} :
         /\ f' = ReadToken(g0)
         /\ hist' = [hist EXCEPT !.last = "word", !.run0 = g0]
    /\ ntok' = ntok + 1
    /\ UNCHANGED <<loc, pc>>

NextWord == ReplEntry \/ WordCall
SpecWord == Init /\ [][NextWord]_vars

(***************************************************************************)
(* The number parser on its own, on cells of NumBits bits: parse-number    *)
(* dispatched with the text in the token buffer and the pointer to it on   *)
(* the stack, as word leaves them.  The texts are the decimal texts of all *)
(* integers of that width and all strings of MaxText bytes at most over a  *)
(* few characters.                                                         *)
(***************************************************************************)
NumBits == 8
MaxText == 3

RECURSIVE FormatNat(_)
FormatNat(m) ==
    IF m < 10 THEN <<CH_0 + m>> ELSE Append(FormatNat(m \div 10), CH_0 + (m % 10))
\* the base-10 text of an integer
Format(n) == IF n < 0 THEN <<CH_MINUS>> \o FormatNat(0 - n) ELSE FormatNat(n)

NumRange == (0 - 2^(NumBits - 1))..(2^(NumBits - 1) - 1)
TextBytes == {CH_MINUS, CH_0, CH_0 + 1, CH_9, 97}
Texts == {Format(n) : n \in NumRange} \cup UNION {[1..k -> TextBytes] : k \in 0..MaxText}

ParseCall ==
    /\ pc = "repl"
    /\ Running(f)
    /\ ntok = 0
    /\ \E txt \in Texts :
         f' = doparse_number_w(push([f EXCEPT !.buf = txt], BufAddr), NumBits)
    /\ ntok' = 1
    /\ hist' = [hist EXCEPT !.last = "parse"]
    /\ UNCHANGED <<loc, pc>>

NextParse == ReplEntry \/ ParseCall
SpecParse == Init /\ [][NextParse]_vars

(***************************************************************************)
(* Records with names of every length the token buffer can hold: one more  *)
(* call of push_primitive_word at the end of new_forth, and definitions    *)
(* `: NAME` read by the REPL.                                              *)
(***************************************************************************)
MaxTokLayout == 2

MaxName == BufSize - 1
NameOfLen(n) == [k \in 1..n |-> 97]
TokLayout == {Tok.colon} \cup {NameOfLen(n) : n \in 1..MaxName}

InstallExtra ==
    /\ pc = "main"
    /\ Running(f)
    /\ \E n \in 1..MaxName, flags \in {0, IMMEDIATE_FLAG} :
         /\ f' = push_primitive_word(f, NameOfLen(n), flags, "dup")
         /\ hist' = [hist EXCEPT
                       !.last = "installed",
                       !.appended = Append(@, [addr |-> f.here, name |-> NameOfLen(n)])]
    /\ pc' = "installed"
    /\ UNCHANGED <<loc, ntok>>

NextLayout ==
    InstallExtra \/ ReplEntry \/ Repl(TokLayout, MaxTokLayout) \/ RunStep(TokLayout, MaxTokLayout)
SpecLayout == Init /\ [][NextLayout]_vars

(***************************************************************************)
(* Colon words with inline cells.  A body that holds branch or 0branch     *)
(* with its offset cell is entered as `: a branch [ 1 , ] dup drop ;`.     *)
(* The runs below start where the REPL has read such a definition of a:    *)
(* the engine is the one colon, the appends of the body cells, semicolon   *)
(* and, for an IMMEDIATE word, immediate leave behind.                     *)
(***************************************************************************)
MaxTokBody == 3

\* a body cell as it is entered: a word to compile, or a cell for `,`
BodyWord(name) == [word |-> TRUE, name |-> name, cell |-> 0]
BodyCell(v) == [word |-> FALSE, name |-> <<>>, cell |-> v]

RECURSIVE CompileCells(_, _)
\* the appends of the REPL for the words and of comma for the cells
CompileCells(g, cells) ==
    IF cells = <<>> THEN g
    ELSE CompileCells(AppendCell(g, IF Head(cells).word
                                    THEN codeword(g, find_word(g, Head(cells).name))
                                    ELSE Head(cells).cell),
                      Tail(cells))

\* d.cells is the body, d.imm says whether `immediate` follows the `;`, and
\* d.used is the number of stack cells the tokens have passed through
Loaded(d) ==
    LET \* the last token read and run: buf, current, and the stale stack cells
        AtRest(g4, last) ==
            [EnterWord(g4, find_word(g4, last)) EXCEPT
                !.buf = last,
                !.stack = [c \in 0..(StackCap - 1) |-> IF c < d.used THEN BufAddr ELSE 0]]
        Flagged(g3) == AtRest(IF d.imm THEN immediate(g3) ELSE g3,
                              IF d.imm THEN Tok.immediate ELSE Tok.semi)
        Body(g1) == Flagged(semicolon(CompileCells(pop(g1), d.cells)))
    IN  Body(colon(push([new_forth(NORMAL_STATE) EXCEPT
                            !.input_stream = Tok.a \o <<CH_SP>>,
                            !.input_handle = StartupAddr], BufAddr)))

BranchOffsets == {-2, 0, 1, 2}
Definitions ==
    {[cells |-> <<BodyWord(op), BodyCell(k), BodyWord(Tok.dup), BodyWord(Tok.drop)>>,
      imm |-> FALSE, used |-> 2] : op \in {Tok.branch, Tok.zbranch}, k \in BranchOffsets}
    \cup {[cells |-> <<BodyWord(Tok.colon)>>, imm |-> i, used |-> 1] : i \in BOOLEAN}

TokBody == {Tok.a, Tok.zero, Tok.one, Tok.rbrack, Tok.semi}

InitBody ==
    /\ \E d \in Definitions : f = Loaded(d)
    /\ loc = [word |-> find_word(f, S_word), lit |-> find_word(f, S_lit)]
    /\ pc = "repl"
    /\ ntok = 0
    /\ hist = [last |-> "loaded",
               appended |-> Append(PrimRecords(NPrims),
                                   [addr |-> WordsBase + 8 * PrimCellsUpTo(NPrims), name |-> Tok.a]),
               sampled |-> FALSE, run0 |-> NoRun, word |-> NULL, open |-> NULL]

NextBody == Repl(TokBody, MaxTokBody) \/ RunStep(TokBody, MaxTokBody)
SpecBody == InitBody /\ [][NextBody]_vars

(***************************************************************************)
(* Notions of the specification, stated without the code's algorithms.     *)
(***************************************************************************)
\* a token that is a number: an optional '-', then one or more digits
IsNumberText(t) ==
    LET d == IF Len(t) >= 1 /\ t[1] = CH_MINUS THEN Tail(t) ELSE t
    IN  Len(d) >= 1 /\ \A i \in 1..Len(d) : d[i] \in CH_0..CH_9

RECURSIVE DigitsValue(_)
DigitsValue(d) ==
    IF d = <<>> THEN 0 ELSE 10 * DigitsValue(SubSeq(d, 1, Len(d) - 1)) + (d[Len(d)] - CH_0)
DecValue(t) == IF t[1] = CH_MINUS THEN 0 - DigitsValue(Tail(t)) ELSE DigitsValue(t)

\* the most recently appended record of a name, NULL when there is none
LastNamed(app, name) ==
    IF \E i \in 1..Len(app) : app[i].name = name
    THEN app[CHOOSE i \in 1..Len(app) :
                app[i].name = name /\ \A j \in (i + 1)..Len(app) : app[j].name # name].addr
    ELSE NULL

\* the codeword slot of an appended record, from the layout of a record
SlotOf(r) == r.addr + 8 + 8 * (((1 + Len(r.name) + 1) + 7) \div 8)
NameOfRecord(app, addr) == (app[CHOOSE i \in 1..Len(app) : app[i].addr = addr]).name
SlotAt(app, addr) == SlotOf([addr |-> addr, name |-> NameOfRecord(app, addr)])

FlagOf(w, addr) == ArenaByte(w, addr + 8 - WordsBase)

\* a step of the loop of repl that read a token
TokenStep == pc = "repl" /\ Running(f) /\ ntok' = ntok + 1 /\ f.top_stack < StackCap

\* the records reached from LATEST over the link fields
RECURSIVE Chain(_, _, _)
Chain(g, rec, fuel) ==
    IF rec = NULL THEN <<>>
    ELSE IF fuel = 0 \/ ~ValidCell(g, rec) THEN <<-1>>
    ELSE <<rec>> \o Chain(g, Rd(g.words, rec), fuel - 1)

(***************************************************************************)
(* C1.  The words of a colon body executed one after the other: every      *)
(* body cell is dispatched as run_word dispatches a word (current at the   *)
(* codeword, next nil), a literal pushes its cell, a colon word stands for *)
(* its own body, and the body ends at the cell of the exit primitive.      *)
(***************************************************************************)
RefFuel == 12

Undefined(e) == [e EXCEPT !.status = "undefined"]

RECURSIVE InOrder(_, _, _)
InOrder(e, addr, fuel) ==
    IF ~Running(e) THEN e
    ELSE IF fuel = 0 \/ ~ValidCell(e, addr) THEN Undefined(e)
    ELSE
    LET cw == Rd(e.words, addr)
        fn == IF ValidCell(e, cw) /\ IsFnPtr(Rd(e.words, cw)) THEN FnOf(Rd(e.words, cw)) ELSE ""
    IN  IF fn = "doexit" THEN e
        ELSE IF fn = "docol"
        THEN LET e1 == InOrder(e, cw + 8, fuel - 1)
             IN  InOrder(e1, addr + 8, fuel - 1)
        ELSE IF fn \in {"lit", "tick"}
        THEN IF ValidCell(e, addr + 8)
             THEN InOrder(push(e, Rd(e.words, addr + 8)), addr + 16, fuel - 1)
             ELSE Undefined(e)
        ELSE IF fn \in {"", "branch", "zero_branch", "dorun_word"} THEN Undefined(e)
        ELSE LET e1 == ExecPrim(fn, [e EXCEPT !.current = cw, !.next = NULL])
             IN  InOrder(e1, addr + 8, fuel - 1)

\* C1: when run_word has run a colon word to its end, the parameter stack is
\* the one left by the words of its body executed in order from the stack at
\* entry.
C1_ColonRunsBodyInOrder ==
    (pc = "repl" /\ Running(f) /\ hist.sampled /\ hist.last \in {"step", "header"}) =>
        LET r == InOrder(hist.run0, hist.word + 8, RefFuel)
        IN  Running(r) => StackOf(f) = StackOf(r)

(***************************************************************************)
(* C2.                                                                     *)
(***************************************************************************)
\* C2: in COMPILE state a number token appends the codeword of lit and the
\* literal (HERE advances by two cells), whether or not a word of that name
\* exists; any other token is looked up, an IMMEDIATE record is executed with
\* nothing appended, another record has its codeword appended (one cell).
C2_CompileToken ==
    [][(TokenStep /\ f.state = COMPILE_STATE) =>
        LET t == f'.buf
            r == LastNamed(hist.appended, t)
        IN  IF IsNumberText(t)
            THEN Fits(f, 2) =>
                   /\ f'.here = f.here + 16
                   /\ Rd(f'.words, Rd(f'.words, f.here)) = FnPtr("lit")
                   /\ Rd(f'.words, f.here + 8) = DecValue(t)
                   /\ pc' = "repl" /\ Running(f')
                   /\ StackOf(f') = StackOf(f)
            ELSE IF r = NULL THEN ~Running(f') /\ f'.here = f.here /\ f'.words = f.words
            ELSE IF FlagOf(f.words, r) % 2 = 1
            THEN /\ pc' = "run" /\ f'.current = SlotAt(hist.appended, r)
                 /\ f'.here = f.here /\ f'.words = f.words
            ELSE Fits(f, 1) =>
                   /\ f'.here = f.here + 8
                   /\ Rd(f'.words, f.here) = SlotAt(hist.appended, r)
                   /\ pc' = "repl" /\ Running(f')
                   /\ StackOf(f') = StackOf(f)]_vars

\* a number was compiled as a literal although a word of that name is defined
C2_Witness ==
    /\ hist.last = "lit" /\ Running(f)
    /\ LastNamed(hist.appended, f.buf) # NULL
    /\ Rd(f.words, f.here - 8) = 1

(***************************************************************************)
(* C3.                                                                     *)
(***************************************************************************)
\* C3: in NORMAL state a number token is pushed and nothing is looked up or
\* executed, even when a word of that name is defined; any other token is
\* looked up and the record found is executed; the pointer to the token that
\* the tokenizer pushed is not left on the stack.
C3_NormalToken ==
    [][(TokenStep /\ f.state = NORMAL_STATE) =>
        LET t == f'.buf
            r == LastNamed(hist.appended, t)
        IN  IF IsNumberText(t)
            THEN /\ StackOf(f') = Append(StackOf(f), DecValue(t))
                 /\ pc' = "repl" /\ Running(f')
                 /\ f'.here = f.here /\ f'.words = f.words
            ELSE IF r = NULL THEN ~Running(f')
            ELSE /\ pc' = "run" /\ Running(f')
                 /\ f'.current = SlotAt(hist.appended, r) /\ f'.next = NULL
                 /\ StackOf(f') = StackOf(f)]_vars

\* a number was pushed in NORMAL state although a word of that name is defined
C3_Witness ==
    /\ hist.last = "num" /\ Running(f) /\ f.state = NORMAL_STATE
    /\ LastNamed(hist.appended, f.buf) # NULL
    /\ f.top_stack >= 1 /\ f.stack[f.top_stack - 1] = 1

(***************************************************************************)
(* C4.                                                                     *)
(***************************************************************************)
\* C4: the state changes only in a step that dispatches one of the four
\* words: colon and ] to COMPILE, ; and [ to NORMAL.
C4_StateTransitions ==
    [][f'.state # f.state =>
        /\ pc = "run"
        /\ \/ CurFn(f) \in {"colon", "set_compile_mode"} /\ f'.state = COMPILE_STATE
           \/ CurFn(f) \in {"semicolon", "set_immediate_mode"} /\ f'.state = NORMAL_STATE]_vars

\* [ has left COMPILE state inside a definition
C4_Witness ==
    /\ pc = "repl" /\ hist.last = "step" /\ CurFn(f) = "set_immediate_mode"
    /\ f.state = NORMAL_STATE /\ Len(hist.appended) > NPrims

(***************************************************************************)
(* C5.                                                                     *)
(***************************************************************************)
\* C5: the depth of the parameter stack lies in [0, S_p] in every state.
C5_DepthInRange == f.top_stack >= 0 /\ f.top_stack <= StackCap

(***************************************************************************)
(* C6.                                                                     *)
(***************************************************************************)
\* the cells a primitive consumes or inspects
NeedCells(fn) ==
    CASE fn \in {"dup", "drop", "emit", "fetch", "comma", "donot", "tell"} -> 1
      [] fn \in {"add", "sub", "mult", "swap", "over", "divmod", "store"} -> 2
      [] OTHER -> 0

\* C6: a primitive dispatched with fewer cells than it consumes or inspects
\* halts the engine, exit on an empty return stack halts it, and neither top
\* pointer ever moves below its base.
C6_UnderflowDetected ==
    [][/\ (pc = "run" /\ Running(f) /\ f.top_stack < NeedCells(CurFn(f)))
            => f'.status = "assert"
       /\ (pc = "run" /\ Running(f) /\ CurFn(f) = "doexit" /\ f.top_rstack = 0)
            => f'.status = "assert"
       /\ f'.top_stack >= 0 /\ f'.top_rstack >= 0]_vars

\* store was dispatched with one cell and the engine halted
C6_Witness ==
    /\ pc = "run" /\ f.status = "assert" /\ CurFn(f) = "store" /\ f.top_stack = 0
    /\ hist.last = "step" /\ ntok = 2

(***************************************************************************)
(* C7.                                                                     *)
(***************************************************************************)
\* C7: HERE never exceeds the end of the arena.
C7_HereInArena == f.here <= ArenaEnd

(***************************************************************************)
(* C8.                                                                     *)
(***************************************************************************)
\* C8: after an append the links from LATEST visit every appended record in
\* reverse order of definition and end at nil, and find_word of every name
\* defined so far returns the most recently appended record of that name.
C8_FindAfterAppend ==
    (hist.last \in {"init", "header"} /\ Running(f)) =>
        LET app == hist.appended
            n == Len(app)
        IN  /\ Chain(f, f.latest, ArenaCells) = [i \in 1..n |-> app[n + 1 - i].addr]
            /\ find_word(f, app[n].name) = app[n].addr
            /\ \A i \in 1..n : find_word(f, app[i].name) = LastNamed(app, app[i].name)

\* a header was appended whose name an older record bears too
C8_Witness ==
    /\ hist.last = "header" /\ Running(f)
    /\ LET app == hist.appended
       IN  /\ Len(app) > NPrims
           /\ \E i \in 1..(Len(app) - 1) : app[i].name = app[Len(app)].name
           /\ find_word(f, app[Len(app)].name) = app[Len(app)].addr

(***************************************************************************)
(* C9.                                                                     *)
(***************************************************************************)
\* C9: the cell that ; appends in COMPILE state is the codeword slot that
\* holds the native exit routine.
C9_BodyEndsInExit ==
    [][(pc = "run" /\ Running(f) /\ CurFn(f) = "semicolon" /\ f.state = COMPILE_STATE
           /\ Running(f') /\ f'.here = f.here + 8) =>
        /\ ValidCell(f', Rd(f'.words, f.here))
        /\ Rd(f'.words, Rd(f'.words, f.here)) = FnPtr("doexit")]_vars

(***************************************************************************)
(* C10.                                                                    *)
(***************************************************************************)
\* C10: while a definition is compiled, the token that is the name of the
\* record colon has just appended resolves to that record: the cell appended
\* is the record's own codeword slot (which holds docol).
C10_SelfReference ==
    [][(/\ TokenStep /\ f.state = COMPILE_STATE
        /\ Len(hist.appended) > NPrims
        /\ f'.buf = hist.appended[Len(hist.appended)].name
        /\ ~IsNumberText(f'.buf)
        /\ FlagOf(f.words, hist.appended[Len(hist.appended)].addr) % 2 = 0
        /\ Fits(f, 1)) =>
        /\ Running(f')
        /\ f'.here = f.here + 8
        /\ Rd(f'.words, f.here) = SlotOf(hist.appended[Len(hist.appended)])
        /\ Rd(f'.words, Rd(f'.words, f.here)) = FnPtr("docol")]_vars

\* the body of the record under construction holds the record's own codeword
C10_Witness ==
    /\ hist.last = "compile" /\ Running(f) /\ f.state = COMPILE_STATE
    /\ Len(hist.appended) > NPrims
    /\ f.buf = hist.appended[Len(hist.appended)].name
    /\ f.latest = hist.appended[Len(hist.appended)].addr
    /\ Rd(f.words, f.here - 8) = SlotOf(hist.appended[Len(hist.appended)])

(***************************************************************************)
(* C11.                                                                    *)
(***************************************************************************)
\* the name of the record under construction
OpenName == NameOfRecord(hist.appended, hist.open)

\* C11 as stated: in COMPILE state between `: NAME` and the matching `;`,
\* find_word(NAME) does not return the record under construction.
C11_HiddenUntilSemicolon ==
    (hist.open # NULL /\ Running(f) /\ f.state = COMPILE_STATE) =>
        find_word(f, OpenName) # hist.open

\* C11 amended: in COMPILE state between `: NAME` and the matching `;`, the
\* record under construction is the one LATEST points at and find_word(NAME)
\* returns it, from the moment colon has written the header.
C11_FoundFromColon ==
    (hist.open # NULL /\ Running(f) /\ f.state = COMPILE_STATE) =>
        /\ f.latest = hist.open
        /\ find_word(f, OpenName) = hist.open

\* a literal was compiled into a definition that is still open and that
\* find_word already returns
C11_Witness ==
    /\ hist.open # NULL /\ Running(f) /\ f.state = COMPILE_STATE
    /\ hist.last = "lit"
    /\ find_word(f, OpenName) = hist.open

(***************************************************************************)
(* C17.                                                                    *)
(***************************************************************************)
\* C17: when the REPL is about to read its first token the engine is in
\* state NORMAL and both stacks are empty.
C17_StartsNormal ==
    (pc = "repl" /\ hist.last = "entry" /\ Running(f)) =>
        /\ f.state = NORMAL_STATE
        /\ f.top_stack = 0 /\ f.top_rstack = 0

(***************************************************************************)
(* C13.                                                                    *)
(***************************************************************************)
\* C13: when the tokenizer of the REPL reaches the end of the stream without
\* a token, the REPL pops no cell of the parameter stack, runs nothing and
\* does not end in a failed assertion or in an access outside an object.
C13_EofStopsCleanly ==
    [][(pc = "repl" /\ Running(f) /\ ntok' = ntok /\ f'.eof) =>
        /\ f'.status \notin {"assert", "ub"}
        /\ f'.top_stack = f.top_stack
        /\ pc' = "repl"]_vars

(***************************************************************************)
(* C14.                                                                    *)
(***************************************************************************)
\* C14: a token that is no number and names no record makes the engine
\* print "failed to find" with the token and halt, in NORMAL state as in
\* COMPILE state, and nothing is pushed, executed or appended for it.
C14_UnknownTokenReported ==
    [][(/\ TokenStep /\ f.state \in {NORMAL_STATE, COMPILE_STATE}
        /\ ~IsNumberText(f'.buf)
        /\ LastNamed(hist.appended, f'.buf) = NULL) =>
        /\ ~Running(f') /\ pc' = "repl"
        /\ f'.out = Append(f.out, [msg |-> "failed to find", arg |-> f'.buf])
        /\ StackOf(f') = StackOf(f)
        /\ f'.here = f.here /\ f'.words = f.words]_vars

(***************************************************************************)
(* C16.                                                                    *)
(***************************************************************************)
\* C16: after the entry of the REPL the engine runs and reads from
\* startup.f or, when that file could not be opened, from standard input.
C16_FallbackToStdin ==
    (pc = "repl" /\ hist.last = "entry" /\ loc.word # NULL /\ loc.lit # NULL) =>
        /\ Running(f)
        /\ f.input_handle \in {StartupAddr, StdinAddr}

(***************************************************************************)
(* C12.  The token of a stream, from the grammar of the source text:       *)
(* whitespace separates tokens and # starts a comment that runs to the end *)
(* of the line.                                                            *)
(***************************************************************************)
RECURSIVE RefSkip(_)
\* the stream without the whitespace and the comments it starts with
RefSkip(s) ==
    IF s = <<>> THEN s
    ELSE IF isspace(Head(s)) THEN RefSkip(Tail(s))
    ELSE IF Head(s) = CH_HASH
    THEN IF \E k \in 1..Len(s) : s[k] = CH_NL
         THEN RefSkip(SubSeq(s, 1 + (CHOOSE k \in 1..Len(s) :
                                       s[k] = CH_NL /\ \A j \in 1..(k - 1) : s[j] # CH_NL),
                             Len(s)))
         ELSE <<>>
    ELSE s

\* the longest run of token characters at the start of s
RefRun(s) ==
    SubSeq(s, 1, CHOOSE n \in 0..Len(s) :
                    /\ \A k \in 1..n : ~isspace(s[k]) /\ s[k] # CH_HASH
                    /\ (n < Len(s) => isspace(s[n + 1]) \/ s[n + 1] = CH_HASH))

RefToken(s) == RefRun(RefSkip(s))

\* C12: word pushes exactly one pointer to the buffer, which holds the token,
\* whenever the stream has a token (one character followed by the end of
\* the stream included), and pushes nothing when it has none; the token
\* holds no whitespace and no #.
C12_WordPushesToken ==
    (hist.last = "word" /\ hist.run0.top_stack < StackCap) =>
        IF RefToken(hist.run0.input_stream) # <<>>
        THEN /\ Running(f)
             /\ f.top_stack = hist.run0.top_stack + 1
             /\ Peek(f, 1) = BufAddr
             /\ f.buf = RefToken(hist.run0.input_stream)
             /\ \A k \in 1..Len(f.buf) : ~isspace(f.buf[k]) /\ f.buf[k] # CH_HASH
        ELSE f.top_stack = hist.run0.top_stack

(***************************************************************************)
(* C15.                                                                    *)
(***************************************************************************)
\* a text without digits, or with a character that is no digit behind the
\* optional sign
Malformed(txt) ==
    \/ txt = <<>>
    \/ txt = <<CH_MINUS>>
    \/ \E k \in 1..Len(txt) : ~(txt[k] \in CH_0..CH_9) /\ ~(k = 1 /\ txt[k] = CH_MINUS)

FnOfRecord(i) ==
    IF i <= NPrims THEN FnPtr(PrimTable[i].fn)
    ELSE IF hist.last = "installed" THEN FnPtr("dup")
    ELSE FnPtr("docol")

\* C18: after the installation of the primitives and after every append of
\* a record by push_primitive_word or by colon, for every record and every
\* name of 1 to 63 bytes: codeword of the record is the cell-aligned slot
\* behind the padded name, that slot holds the native function of the
\* primitive or docol, the name and its null end before the slot, and HERE
\* is the cell after the slot of the new record, cell-aligned.
C18_CodewordLayout ==
    /\ hist.last = "init" => Running(f)
    /\ (hist.last \in {"init", "installed", "header"} /\ Running(f)) =>
         LET app == hist.appended
             n == Len(app)
         IN  /\ \A i \in 1..n :
                   /\ codeword(f, app[i].addr) = SlotOf(app[i])
                   /\ (SlotOf(app[i]) - WordsBase) % 8 = 0
                   /\ Rd(f.words, SlotOf(app[i])) = FnOfRecord(i)
                   /\ CStr(f, wordname(app[i].addr)) = app[i].name
                   /\ wordname(app[i].addr) + Len(app[i].name) + 1 <= SlotOf(app[i])
             /\ hist.last = "header" => app[n].name = f.buf /\ Len(f.buf) \in 1..MaxName
             /\ f.here = SlotOf(app[n]) + 8
             /\ (f.here - WordsBase) % 8 = 0

\* colon has appended a record whose name has 63 bytes
C18_Witness ==
    /\ hist.last = "header" /\ Running(f)
    /\ Len(f.buf) = MaxName
    /\ codeword(f, f.latest) = f.here - 8
    /\ Rd(f.words, f.here - 8) = FnPtr("docol")

(***************************************************************************)
(* C19.                                                                    *)
(***************************************************************************)
\* C19: branch and 0branch read the cell at next as an offset and go on at
\* the cell after it, moved by the offset in cells for branch always and
\* for 0branch when the popped cell is 0; 0branch pops one cell in every
\* case (and halts on an empty stack), branch pops none.
C19_BranchOffsets ==
    [][(/\ pc = "run" /\ Running(f) /\ CurFn(f) \in {"branch", "zero_branch"}
        /\ ValidCell(f, f.next)) =>
        LET after == f.next + 8
            taken == CurFn(f) = "branch" \/ Peek(f, 1) = 0
            target == IF taken THEN after + 8 * Rd(f.words, f.next) ELSE after
        IN  /\ CurFn(f) = "branch" => f'.top_stack = f.top_stack
            /\ CurFn(f) = "zero_branch" =>
                  IF f.top_stack = 0 THEN f'.status = "assert"
                  ELSE f'.top_stack = f.top_stack - 1
            /\ (Running(f') /\ ValidCell(f, target)) =>
                  /\ f'.current = Rd(f.words, target)
                  /\ f'.next = target + 8
                  /\ pc' = "run"
            /\ f'.top_rstack = f.top_rstack /\ f'.words = f.words]_vars

\* 0branch with offset 1 has popped a cell that is not 0 and the run goes on
\* at the cell right after the offset cell
C19_Witness ==
    LET body == SlotOf(hist.appended[Len(hist.appended)]) + 8
    IN  /\ hist.last = "step" /\ pc = "run" /\ Running(f)
        /\ Rd(f.words, Rd(f.words, body)) = FnPtr("zero_branch")
        /\ Rd(f.words, body + 8) = 1
        /\ f.current = Rd(f.words, body + 16) /\ f.next = body + 24
        /\ f.top_stack = 0 /\ f.top_rstack = 1

(***************************************************************************)
(* C20.                                                                    *)
(***************************************************************************)
\* C20: semicolon dispatched in NORMAL state and colon dispatched in COMPILE
\* state halt the engine, and state, HERE, LATEST and the arena are what
\* they were.
C20_MisalignedHalts ==
    [][(/\ pc = "run" /\ Running(f)
        /\ \/ CurFn(f) = "semicolon" /\ f.state = NORMAL_STATE
           \/ CurFn(f) = "colon" /\ f.state = COMPILE_STATE) =>
        /\ ~Running(f')
        /\ f'.state = f.state /\ f'.here = f.here /\ f'.latest = f.latest
        /\ f'.words = f.words]_vars

\* colon was dispatched in COMPILE state from the body of an IMMEDIATE
\* word, has read a name with word and the engine has halted on its assertion
C20_Witness ==
    LET rec == hist.appended[Len(hist.appended)]
    IN  /\ pc = "run" /\ f.status = "assert" /\ hist.last = "step"
        /\ Rd(f.words, Rd(f.words, SlotOf(rec) + 8)) = FnPtr("colon")
        /\ f.state = COMPILE_STATE /\ CurFn(f) = "word"
        /\ f.buf = Tok.one /\ f.latest = rec.addr

(***************************************************************************)
(* C21.                                                                    *)
(***************************************************************************)
\* the primitives that are meant to move next or the return stack
ControlFlow == {"docol", "doexit", "lit", "tick", "branch", "zero_branch", "dorun_word"}

\* C21: a primitive other than docol, exit, lit, ', branch, 0branch and
\* run-word, `:` included, leaves next and the return stack as they were:
\* dispatched from a colon body the loop goes on with the following body
\* cell, dispatched at top level the run ends, and a run of a colon word
\* that it ends returns with the return-stack depth of its entry.
C21_NextPreserved ==
    [][(/\ pc = "run" /\ Running(f) /\ CurFn(f) \notin ControlFlow \cup {""}
        /\ Running(f')) =>
        /\ f'.top_rstack = f.top_rstack /\ f'.rstack = f.rstack
        /\ IF f.next = NULL THEN pc' = "repl" /\ f'.next = NULL
           ELSE /\ pc' = "run"
                /\ f'.current = Rd(f'.words, f.next)
                /\ f'.next = f.next + 8
        /\ (pc' = "repl" /\ hist.sampled) => f'.top_rstack = hist.run0.top_rstack]_vars
====
